---- MODULE Spec2Model ----
(***************************************************************************)
(* A model of two components of miniqmc:                                   *)
(*   - DiracDeterminant (src/QMCWaveFunctions/Determinant.h): a dense      *)
(*     matrix psiMsave, its maintained (transposed) inverse psiMinv, the   *)
(*     trial row psiV and the scalars curRatio and LogValue;               *)
(*   - DistanceTableBA (src/Particle/DistanceTableBA.h): the dense         *)
(*     target-major distance/displacement tables, the trial row and the    *)
(*     compact neighbour lists.                                            *)
(*                                                                         *)
(* Floating point values are modelled by exact extended rationals          *)
(* <<n, d>>: d > 0 is the finite value n/d in lowest terms, <<1,0>> and    *)
(* <<-1,0>> are +inf and -inf, <<0,0>> is NaN.  Rounding is not modelled.  *)
(***************************************************************************)
EXTENDS Integers, Sequences, FiniteSets, TLC

\* ------------------------------------------------------------------------
\* Bounds of the model
\* ------------------------------------------------------------------------

\* the DiracDeterminantKokkos objects that are assigned to one another
MaxObj == 3

\* successive ratio() calls are counted up to MaxTrials
MaxTrials == 2

\* the random generator returns one of the MaxVal + 1 values k / MaxVal
MaxVal == 2

\* a particle set holds 0 .. MaxN particles
MaxN == 2

\* a table holds at most MaxPairs source-target pairs
MaxPairs == 4

\* the candidate positions are numbered 0 .. MaxPos
MaxPos == 1

\* ------------------------------------------------------------------------
\* Program constants
\* ------------------------------------------------------------------------

\* the template parameter D of DistanceTableBA: the space dimension
D == 2

\* std::numeric_limits<T>::epsilon(), on the scale of the (squared) cutoffs
Epsilon == 1

\* ------------------------------------------------------------------------
\* Extended rational arithmetic (the ValueType of the determinant)
\* ------------------------------------------------------------------------

Abs(x) == IF x < 0 THEN -x ELSE x

Sgn(x) == IF x < 0 THEN -1 ELSE IF x > 0 THEN 1 ELSE 0

RECURSIVE Gcd(_, _)
Gcd(a, b) == IF b = 0 THEN a ELSE Gcd(b, a % b)

\* n/d in canonical form; a zero denominator gives +inf, -inf or NaN
Norm(n, d) ==
  IF d = 0 THEN <<Sgn(n), 0>>
  ELSE LET g == Gcd(Abs(n), Abs(d))
       IN  <<(Sgn(d) * n) \div g, Abs(d) \div g>>

Q(k) == <<k, 1>>

czero == Q(0)

cone == Q(1)

IsFinite(a) == a[2] # 0

IsNaN(a) == a = <<0, 0>>

Mul(a, b) == Norm(a[1] * b[1], a[2] * b[2])

Neg(a) == <<-a[1], a[2]>>

\* inf + inf = inf, inf - inf = NaN, NaN + x = NaN
Add(a, b) ==
  IF a[2] = 0 /\ b[2] = 0 THEN (IF a = b THEN a ELSE <<0, 0>>)
  ELSE Norm(a[1] * b[2] + b[1] * a[2], a[2] * b[2])

Sub(a, b) == Add(a, Neg(b))

\* a / b; x/0 is an infinity (NaN for 0/0), x/inf is 0.  The sign of a zero
\* is not tracked: a zero divisor is taken as +0.
Div(a, b) ==
  IF b[2] = 0 THEN (IF a[2] = 0 \/ IsNaN(b) THEN <<0, 0>> ELSE czero)
  ELSE IF a[2] = 0 THEN <<a[1] * (IF b[1] < 0 THEN -1 ELSE 1), 0>>
  ELSE Norm(a[1] * b[2], a[2] * b[1])

\* std::abs
AbsQ(a) == <<Abs(a[1]), a[2]>>

\* a > 0 as the C++ comparison evaluates it (false for NaN)
Positive(a) == a[1] > 0

\* a < b as the C++ comparison evaluates it on finite values and infinities
\* (false when either side is NaN)
Less(a, b) ==
  IF IsNaN(a) \/ IsNaN(b) THEN FALSE
  ELSE IF a[2] = 0 /\ b[2] = 0 THEN a[1] < b[1]
  ELSE IF a[2] = 0 THEN a[1] < 0
  ELSE IF b[2] = 0 THEN b[1] > 0
  ELSE a[1] * b[2] < b[1] * a[2]

\* ------------------------------------------------------------------------
\* Dense linear algebra on n x n matrices, indexed from 0 as in the source
\* ------------------------------------------------------------------------

\* number of electrons: the size of the determinant
nels == 2

Idx == 0 .. (nels - 1)

RECURSIVE SumUpTo(_, _)
SumUpTo(f, k) == IF k < 0 THEN czero ELSE Add(SumUpTo(f, k - 1), f[k])

\* the sum of f[0] .. f[n-1] for a vector f over 0 .. n-1
SumQ(f) == SumUpTo(f, Cardinality(DOMAIN f) - 1)

Dot(x, y) == SumQ([k \in DOMAIN x |-> Mul(x[k], y[k])])

Transpose(m) == [i \in DOMAIN m |-> [j \in DOMAIN m |-> m[j][i]]]

Identity(n) == [i \in 0 .. (n - 1) |-> [j \in 0 .. (n - 1) |-> IF i = j THEN cone ELSE czero]]

\* a * b^T: entry (i, j) is the dot product of row i of a and row j of b
MulTrans(a, b) == [i \in DOMAIN a |-> [j \in DOMAIN b |-> Dot(a[i], b[j])]]

Min(S) == CHOOSE x \in S : \A y \in S : x <= y

\* determinant of the submatrix on rows R and columns C (Laplace expansion
\* along the first row of R)
RECURSIVE DetRC(_, _, _)
DetRC(m, R, C) ==
  IF R = {} THEN cone
  ELSE LET i == Min(R)
           term(j) == LET pos == Cardinality({c \in C : c < j})
                          sub == Mul(m[i][j], DetRC(m, R \ {i}, C \ {j}))
                      IN  IF pos % 2 = 0 THEN sub ELSE Neg(sub)
           cols == [k \in 0 .. (Cardinality(C) - 1) |->
                      term(CHOOSE j \in C : Cardinality({c \in C : c < j}) = k)]
       IN  SumQ(cols)

Det(m) == DetRC(m, DOMAIN m, DOMAIN m)

Cofactor(m, i, j) ==
  LET c == DetRC(m, (DOMAIN m) \ {i}, (DOMAIN m) \ {j})
  IN  IF (i + j) % 2 = 0 THEN c ELSE Neg(c)

AllFinite(m) == \A i \in DOMAIN m : \A j \in DOMAIN m[i] : IsFinite(m[i][j])

\* ------------------------------------------------------------------------
\* linalgHelper (Numerics/LinAlgKokkos.h): the BLAS/LAPACK style helpers the
\* determinant calls.  Matrices are row-major n x n.
\* ------------------------------------------------------------------------

\* -1 <= a < b as std::abs compares pivot candidates
AbsLess(a, b) == Less(AbsQ(a), AbsQ(b))

\* partial pivoting: the first row p >= k whose entry in column k is largest
\* in magnitude
PivotRow(a, k) ==
  LET n == Cardinality(DOMAIN a)
      cand == k .. (n - 1)
  IN  Min({p \in cand : \A q \in cand : ~AbsLess(a[p][k], a[q][k])})

SwapRows(a, k, p) ==
  [i \in DOMAIN a |-> IF i = k THEN a[p] ELSE IF i = p THEN a[k] ELSE a[i]]

\* one elimination step on column k; a zero pivot leaves the column as it is
Eliminate(a, k) ==
  IF a[k][k] = czero THEN a
  ELSE [i \in DOMAIN a |->
          IF i <= k THEN a[i]
          ELSE LET l == Div(a[i][k], a[k][k])
               IN  [j \in DOMAIN a |->
                      IF j < k THEN a[i][j]
                      ELSE IF j = k THEN l
                      ELSE Sub(a[i][j], Mul(l, a[k][j]))]]

RECURSIVE GetrfFrom(_, _, _)
GetrfFrom(a, piv, k) ==
  IF k >= Cardinality(DOMAIN a) THEN [lu |-> a, piv |-> piv]
  ELSE LET p == PivotRow(a, k)
           b == Eliminate(SwapRows(a, k, p), k)
       IN  GetrfFrom(b, [piv EXCEPT ![k] = p + 1], k + 1)

\* lah.getrf: LU factors in place and the pivot indices (1-based, as LAPACK
\* returns them)
getrf(m) == GetrfFrom(m, [i \in DOMAIN m |-> 0], 0)

\* lah.getri / lah.invertMatrix: the inverse of m.  A singular m has no
\* inverse; the divisions by the zero determinant give inf and NaN entries.
invertMatrix(m) ==
  LET d == Det(m)
  IN  [i \in DOMAIN m |-> [j \in DOMAIN m |-> Div(Cofactor(m, j, i), d)]]

\* lah.updateRatio: the inner product of psiV with row `row` of psiMinv
updateRatio(v, minv, row) == Dot(v, minv[row])

\* lah.gemvTrans: y <- alpha * A x + beta * y, A row-major (beta = 0 does not
\* read y)
gemvTrans(A, x, y, alpha, beta) ==
  [j \in DOMAIN A |->
     LET ax == Mul(alpha, Dot(A[j], x))
     IN  IF beta = czero THEN ax ELSE Add(ax, Mul(beta, y[j]))]

\* lah.copyChangedRow: rcopy <- row `row` of psiMinv
copyChangedRow(row, minv) == minv[row]

\* lah.ger: A[j][i] <- A[j][i] + alpha * x[i] * y[j]
ger(A, x, y, alpha) ==
  [j \in DOMAIN A |-> [i \in DOMAIN A |-> Add(A[j][i], Mul(alpha, Mul(x[i], y[j])))]]

\* lah.copyBack: psiMsave(row, i) <- psiV(i)
copyBack(msave, v, row) == [msave EXCEPT ![row] = v]

\* ------------------------------------------------------------------------
\* Determinant.h
\* ------------------------------------------------------------------------

\* A log value log(q) is represented by q itself (q >= 0, or inf / NaN):
\* 0.0 is 1, log|x| is |x|, and the sum of two logs is the product.
LogOf(q) == q

LogSum(a, b) == Mul(a, b)

RECURSIVE LogAccumulate(_, _)
LogAccumulate(lu, k) ==
  IF k < 0 THEN LogOf(cone)
  ELSE LogSum(LogAccumulate(lu, k - 1), LogOf(AbsQ(lu[k][k])))

RECURSIVE ProdOver(_, _)
ProdOver(f, S) ==
  IF S = {} THEN 1 ELSE LET i == Min(S) IN f[i] * ProdOver(f, S \ {i})

\* The values the sign reduction can leave in sign_det.  The functor assigns
\* cur_sign (it does not multiply into it), so each thread's partial value is
\* the factor of the last index that thread handled; the partial values are
\* then multiplied.  L is the set of those last indices: the last index of
\* all, n - 1, is always one of them, and it is the only one when the
\* reduction runs on one thread.
SignDetOutcomes(lu, piv) ==
  LET n == Cardinality(DOMAIN lu)
      s == [i \in DOMAIN lu |->
              (IF piv[i] = i + 1 THEN 1 ELSE -1) * (IF Positive(lu[i][i]) THEN 1 ELSE -1)]
  IN  IF n = 0 THEN {1}
      ELSE {ProdOver(s, L \cup {n - 1}) : L \in SUBSET (DOMAIN lu)}

\* InvertWithLog: psiM is replaced by its inverse; the value returned is
\* locLogDet, which the function initialises to 0.0; the reduction over the
\* pivots accumulates into logdet.
InvertWithLog(psiM0) ==
  LET f == getrf(psiM0)
      locLogDet == LogOf(cone)
      logdet == LogAccumulate(f.lu, Cardinality(DOMAIN psiM0) - 1)
  IN  [psiM |-> invertMatrix(psiM0),
       sign_dets |-> SignDetOutcomes(f.lu, f.piv),
       phases |-> {IF sd > 0 THEN "0" ELSE "pi" : sd \in SignDetOutcomes(f.lu, f.piv)},
       logdet |-> logdet,
       ret |-> locLogDet]

\* updateRow with c_ratio_in used as it comes, not inverted
updateRow_NotInverted(minv, v, rowchanged, c_ratio_in) ==
  LET c_ratio == c_ratio_in
      temp0 == gemvTrans(minv, v, [j \in DOMAIN minv |-> czero], c_ratio, czero)
      tempRowVec == [temp0 EXCEPT ![rowchanged] = Sub(cone, c_ratio)]
      rcopy == copyChangedRow(rowchanged, minv)
  IN  ger(minv, rcopy, tempRowVec, Neg(cone))

\* updateRow: the rank-1 update of psiMinv for the row `rowchanged`
updateRow(minv, v, rowchanged, c_ratio_in) ==
  LET c_ratio == Div(cone, c_ratio_in)
      temp0 == gemvTrans(minv, v, [j \in DOMAIN minv |-> czero], c_ratio, czero)
      tempRowVec == [temp0 EXCEPT ![rowchanged] = Sub(cone, c_ratio)]
      rcopy == copyChangedRow(rowchanged, minv)
  IN  ger(minv, rcopy, tempRowVec, Neg(cone))

shift == <<1, 2>>

\* myRandom.rand() - shift
RandVals == {Sub(Norm(k, MaxVal), shift) : k \in 0 .. MaxVal}

Rows == [Idx -> RandVals]

\* the values First takes in the constructor
FirstVals == {0, 1}

\* what the uninitialised member curRatio may hold
UninitVals == {czero, cone}

\* the determinant: the members of DiracDeterminant, the phase local to
\* the constructor, and the trace of the calls made (the outcome of the last
\* factorization, the last call and its electron, and the number of ratio()
\* calls in a row that the last call ended or committed, counted up to
\* MaxTrials)
VARIABLES FirstIndex, psiMsave, psiMinv, psiV, curRatio, LogValue, phase,
          factorStatus, lastOp, lastIel, trials

\* the DiracDeterminantKokkos objects: for each object and each data member,
\* the allocation its Kokkos::View refers to
VARIABLES handles

\* the distance table
VARIABLES Nsources, Ntargets, Distances, Displacements, Temp_r, Temp_dr,
          M, J2, r_m2, dr_m2, Rmax, fault

detVars == <<FirstIndex, psiMsave, psiMinv, psiV, curRatio, LogValue, phase,
             factorStatus, lastOp, lastIel, trials, handles>>

\* the dense tables, the trial row and the compact lists
dtBuffers == <<Distances, Displacements, Temp_r, Temp_dr, M, J2, r_m2, dr_m2>>

dtVars == <<Nsources, Ntargets, Distances, Displacements, Temp_r, Temp_dr,
            M, J2, r_m2, dr_m2, Rmax, fault>>

vars == <<detVars, dtVars>>

\* ------------------------------------------------------------------------
\* DistanceTableBA.h
\* ------------------------------------------------------------------------

Dims == 1 .. D

\* the candidate positions of a target: the points (k, 2k, ..., D k)
Positions == {[d \in Dims |-> k * d] : k \in 0 .. MaxPos}

\* Origin->RSoA: source i sits at (i, 0, ..., 0)
SourcePos(i) == [d \in Dims |-> IF d = 1 THEN i ELSE 0]

ZeroVec == [d \in Dims |-> 0]

\* A distance r >= 0 (and the cutoff Rmax) is represented by its square,
\* which keeps equality and order.
RECURSIVE SumSq(_, _)
SumSq(v, d) == IF d = 0 THEN 0 ELSE SumSq(v, d - 1) + v[d] * v[d]

\* DTD_BConds::computeDistances, open boundary: for source s the
\* displacement and the distance of the pair (pos, source s)
DisplacementTo(pos, s) == [d \in Dims |-> pos[d] - SourcePos(s)[d]]

DistanceTo(pos, s) == SumSq(DisplacementTo(pos, s), D)

\* the elements first .. last-1 of a row written, the others kept
WriteRange(old, new, first, last) ==
  [s \in DOMAIN old |-> IF first <= s /\ s < last THEN new[s] ELSE old[s]]

\* an element of first .. last-1 lies outside the buffer
OutOfRange(buf, first, last) == \E s \in first .. (last - 1) : s \notin DOMAIN buf

computeDistances_r(pos, old, first, last) ==
  WriteRange(old, [s \in DOMAIN old |-> DistanceTo(pos, s)], first, last)

computeDistances_dr(pos, old, first, last) ==
  WriteRange(old, [s \in DOMAIN old |-> DisplacementTo(pos, s)], first, last)

\* simd::copy_n(src, n, dst)
copy_n(src, n, dst) == WriteRange(dst, src, 0, n)

\* one component of every vector of dst replaced by that of src
copy_dim(src, n, dst, idim) ==
  [s \in DOMAIN dst |-> IF s < n THEN [dst[s] EXCEPT ![idim] = src[s][idim]] ELSE dst[s]]

\* the loop over the dimensions stopping after the first one
copy_dims_FirstOnly(src, n, dst, idim) == copy_dim(src, n, dst, 1)

RECURSIVE copy_dims(_, _, _, _)
copy_dims(src, n, dst, idim) ==
  IF idim > D THEN dst ELSE copy_dims(src, n, copy_dim(src, n, dst, idim), idim + 1)

\* resize(ns, nt): nothing is allocated when ns * nt = 0; the padded lanes of
\* the rows are left out
resize(ns, nt) ==
  LET S == IF ns * nt = 0 THEN {} ELSE 0 .. (ns - 1)
      T == IF ns * nt = 0 THEN {} ELSE 0 .. (nt - 1)
  IN  [Distances     |-> [t \in T |-> [s \in S |-> 0]],
       Displacements |-> [t \in T |-> [s \in S |-> ZeroVec]],
       Temp_r        |-> [s \in S |-> 0],
       Temp_dr       |-> [s \in S |-> ZeroVec],
       M             |-> [s \in S |-> 0],
       r_m2          |-> [s \in S |-> [k \in T |-> 0]],
       dr_m2         |-> [s \in S |-> [k \in T |-> ZeroVec]],
       J2            |-> [s \in S |-> [k \in T |-> 0]]]

\* the data members a DiracDeterminantKokkos has (lines 121-135)
Members == {"LogValue", "curRatio", "FirstIndex", "psiMinv", "psiV",
            "tempRowVec", "rcopy", "psiM", "psiMsave"}

\* the members operator= assigns (lines 142-149)
AssignedMembers == {"LogValue", "curRatio", "FirstIndex", "psiMinv", "psiV",
                    "tempRowVec", "rcopy", "psiMsave"}

Objs == 0 .. (MaxObj - 1)

\* the views of an object built by DiracDeterminant's constructor: one
\* allocation of its own for each member
Allocated(o) == [m \in Members |-> <<o, m>>]

\* the views of a default-constructed object: none refers to anything
Unallocated == [m \in Members |-> <<>>]

\* the state of the determinant while the distance table runs
IdleDet ==
  /\ handles = [o \in Objs |-> Unallocated]
  /\ FirstIndex = 0
  /\ psiMsave = <<>>
  /\ psiMinv = <<>>
  /\ psiV = <<>>
  /\ curRatio = czero
  /\ LogValue = LogOf(cone)
  /\ phase = "0"
  /\ factorStatus = "none"
  /\ lastOp = "none"
  /\ lastIel = -1
  /\ trials = 0

\* DistanceTableBA(source, target): resize(source.getTotalNum(),
\* target.getTotalNum())
InitDTWith(ns, nt) ==
  LET b == resize(ns, nt)
  IN  /\ Nsources = ns
      /\ Ntargets = nt
      /\ Distances = b.Distances
      /\ Displacements = b.Displacements
      /\ Temp_r = b.Temp_r
      /\ Temp_dr = b.Temp_dr
      /\ M = b.M
      /\ r_m2 = b.r_m2
      /\ dr_m2 = b.dr_m2
      /\ J2 = b.J2
      /\ Rmax = 0
      /\ fault = FALSE

\* the state of the distance table while the determinant runs
IdleDT == InitDTWith(0, 0)

InitDT ==
  /\ \E ns, nt \in 0 .. MaxN : ns * nt <= MaxPairs /\ InitDTWith(ns, nt)
  /\ IdleDet

Targets == 0 .. (Ntargets - 1)

\* a row access Distances[iat] / Displacements[iat] that touches elements
\* 0 .. Nsources-1 of a row that was never allocated
RowFault(iat) ==
  Nsources > 0 /\ (iat \notin DOMAIN Distances \/ OutOfRange(Distances[iat], 0, Nsources))

\* evaluate(P): every target row recomputed from P.R
evaluate(R) ==
  /\ IF \E iat \in Targets : RowFault(iat)
     THEN fault' = TRUE /\ UNCHANGED <<Distances, Displacements>>
     ELSE /\ Distances' =
               [t \in DOMAIN Distances |->
                  IF t < Ntargets
                  THEN computeDistances_r(R[t], Distances[t], 0, Nsources)
                  ELSE Distances[t]]
          /\ Displacements' =
               [t \in DOMAIN Displacements |->
                  IF t < Ntargets
                  THEN computeDistances_dr(R[t], Displacements[t], 0, Nsources)
                  ELSE Displacements[t]]
          /\ UNCHANGED fault
  /\ UNCHANGED <<Nsources, Ntargets, Temp_r, Temp_dr, M, J2, r_m2, dr_m2, Rmax>>
  /\ UNCHANGED detVars

\* evaluate(P, iat) recomputing every target row from the one position
evaluateRow_AllRows(pos, iat) == evaluate([t \in Targets |-> pos])

\* evaluate(P, iat): row iat recomputed from P.R[iat]
evaluateRow(pos, iat) ==
  /\ IF RowFault(iat)
     THEN fault' = TRUE /\ UNCHANGED <<Distances, Displacements>>
     ELSE /\ Distances' =
               [t \in DOMAIN Distances |->
                  IF t = iat
                  THEN computeDistances_r(pos, Distances[t], 0, Nsources)
                  ELSE Distances[t]]
          /\ Displacements' =
               [t \in DOMAIN Displacements |->
                  IF t = iat
                  THEN computeDistances_dr(pos, Displacements[t], 0, Nsources)
                  ELSE Displacements[t]]
          /\ UNCHANGED fault
  /\ UNCHANGED <<Nsources, Ntargets, Temp_r, Temp_dr, M, J2, r_m2, dr_m2, Rmax>>
  /\ UNCHANGED detVars

\* the body move and moveOnSphere share: the trial row for rnew
TrialRow(rnew) ==
  IF OutOfRange(Temp_r, 0, Nsources)
  THEN fault' = TRUE /\ UNCHANGED <<Temp_r, Temp_dr>>
  ELSE /\ Temp_r' = computeDistances_r(rnew, Temp_r, 0, Nsources)
       /\ Temp_dr' = computeDistances_dr(rnew, Temp_dr, 0, Nsources)
       /\ UNCHANGED fault

\* move computing the row of target 0 in place, not into Temp_r / Temp_dr
move_IntoTable(rnew) == Ntargets > 0 /\ evaluateRow(rnew, 0)

\* move(P, rnew)
move(rnew) ==
  /\ TrialRow(rnew)
  /\ UNCHANGED <<Nsources, Ntargets, Distances, Displacements, M, J2, r_m2, dr_m2, Rmax>>
  /\ UNCHANGED detVars

\* moveOnSphere(P, rnew)
moveOnSphere(rnew) ==
  /\ TrialRow(rnew)
  /\ UNCHANGED <<Nsources, Ntargets, Distances, Displacements, M, J2, r_m2, dr_m2, Rmax>>
  /\ UNCHANGED detVars

\* update(iat): the trial row copied into row iat, dimension by dimension
update(iat) ==
  /\ IF RowFault(iat) \/ OutOfRange(Temp_r, 0, Nsources)
     THEN fault' = TRUE /\ UNCHANGED <<Distances, Displacements>>
     ELSE /\ Distances' =
               [t \in DOMAIN Distances |->
                  IF t = iat THEN copy_n(Temp_r, Nsources, Distances[t]) ELSE Distances[t]]
          /\ Displacements' =
               [t \in DOMAIN Displacements |->
                  IF t = iat
                  THEN copy_dims(Temp_dr, Nsources, Displacements[t], 1)
                  ELSE Displacements[t]]
          /\ UNCHANGED fault
  /\ UNCHANGED <<Nsources, Ntargets, Temp_r, Temp_dr, M, J2, r_m2, dr_m2, Rmax>>
  /\ UNCHANGED detVars

\* rij <= Rmax
WithinCutoff_Inclusive(rij, rmax) == rij <= rmax

\* rij < Rmax
WithinCutoff(rij, rmax) == rij < rmax

\* the inner loop of donePbyP for source iat, from target jat on: c holds nn
\* and the three rows of the compact list
RECURSIVE CompactFrom(_, _, _, _)
CompactFrom(iat, jat, c, rmax) ==
  IF jat >= Ntargets THEN c
  ELSE LET rij == Distances[jat][iat]
       IN  IF WithinCutoff(rij, rmax)
           THEN CompactFrom(iat, jat + 1,
                            [nn |-> c.nn + 1,
                             rptr |-> [c.rptr EXCEPT ![c.nn] = rij],
                             dptr |-> [c.dptr EXCEPT ![c.nn] =
                                         [d \in Dims |-> (-1) * Displacements[jat][iat][d]]],
                             jptr |-> [c.jptr EXCEPT ![c.nn] = jat]],
                            rmax)
           ELSE CompactFrom(iat, jat + 1, c, rmax)

CompactRow(iat, rmax) ==
  CompactFrom(iat, 0, [nn |-> 0, rptr |-> r_m2[iat], dptr |-> dr_m2[iat], jptr |-> J2[iat]], rmax)

\* the loop of donePbyP over the sources
CompactAll(r) ==
  IF OutOfRange(M, 0, Nsources)
  THEN fault' = TRUE /\ UNCHANGED <<M, J2, r_m2, dr_m2>>
  ELSE /\ M' = [i \in DOMAIN M |-> IF i < Nsources THEN CompactRow(i, r).nn ELSE M[i]]
       /\ J2' = [i \in DOMAIN J2 |-> IF i < Nsources THEN CompactRow(i, r).jptr ELSE J2[i]]
       /\ r_m2' = [i \in DOMAIN r_m2 |-> IF i < Nsources THEN CompactRow(i, r).rptr ELSE r_m2[i]]
       /\ dr_m2' = [i \in DOMAIN dr_m2 |-> IF i < Nsources THEN CompactRow(i, r).dptr ELSE dr_m2[i]]
       /\ UNCHANGED fault

\* donePbyP without the early return
donePbyP_NoEarlyReturn(r) ==
  /\ Rmax' = r
  /\ CompactAll(r)
  /\ UNCHANGED <<Nsources, Ntargets, Distances, Displacements, Temp_r, Temp_dr>>
  /\ UNCHANGED detVars

\* donePbyP(), called with the cutoff Rmax that the owner of the table has
\* set to r: nothing when Rmax is below epsilon; else the compact list of
\* every source rebuilt
donePbyP(r) ==
  /\ Rmax' = r
  /\ IF r < Epsilon
     THEN UNCHANGED <<M, J2, r_m2, dr_m2, fault>>
     ELSE CompactAll(r)
  /\ UNCHANGED <<Nsources, Ntargets, Distances, Displacements, Temp_r, Temp_dr>>
  /\ UNCHANGED detVars

\* the cutoffs (squared) the owner of the table sets
RmaxVals == {0, 1, 100}

NextDT ==
  \/ \E R \in [Targets -> Positions] : evaluate(R)
  \/ \E iat \in Targets : \E pos \in Positions : evaluateRow(pos, iat)
  \/ \E rnew \in Positions : move(rnew)
  \/ \E rnew \in Positions : moveOnSphere(rnew)
  \/ \E iat \in Targets : update(iat)
  \/ \E r \in RmaxVals : donePbyP(r)

SpecDT == InitDT /\ [][NextDT]_vars

\* DiracDeterminant(nels, RNG, First): random psiMsave, psiM its transpose,
\* InvertWithLog, psiMinv <- psiM
InitDet ==
  /\ FirstIndex \in FirstVals
  /\ psiMsave \in [Idx -> Rows]
  /\ LET r == InvertWithLog(Transpose(psiMsave))
     IN  /\ LogValue = r.ret
         /\ phase \in r.phases
         /\ psiMinv = r.psiM
  /\ psiV = [j \in Idx |-> czero]
  /\ curRatio \in UninitVals
  /\ factorStatus = "returned"
  /\ lastOp = "construct"
  /\ lastIel = -1
  /\ trials = 0
  /\ handles = [o \in Objs |-> IF o = 0 THEN Allocated(o) ELSE Unallocated]
  /\ IdleDT

\* ratio that also stores the trial row in the committed matrix
ratio_InPlace(iel) ==
  /\ \E v \in Rows :
       /\ psiV' = v
       /\ curRatio' = updateRatio(v, psiMinv, iel - FirstIndex)
       /\ psiMsave' = copyBack(psiMsave, v, iel - FirstIndex)
  /\ lastOp' = "ratio"
  /\ lastIel' = iel
  /\ trials' = (IF lastOp = "ratio" THEN Min({trials + 1, MaxTrials}) ELSE 1)
  /\ UNCHANGED <<FirstIndex, psiMinv, LogValue, phase, factorStatus, handles>>
  /\ UNCHANGED dtVars

\* ratio that takes the inner product with a row of psiMsave, not of psiMinv
ratio_AgainstMatrix(iel) ==
  /\ \E v \in Rows :
       /\ psiV' = v
       /\ curRatio' = updateRatio(v, psiMsave, iel - FirstIndex)
  /\ lastOp' = "ratio"
  /\ lastIel' = iel
  /\ trials' = (IF lastOp = "ratio" THEN Min({trials + 1, MaxTrials}) ELSE 1)
  /\ UNCHANGED <<FirstIndex, psiMsave, psiMinv, LogValue, phase, factorStatus, handles>>
  /\ UNCHANGED dtVars

\* ratio(P, iel): a random trial row, and its determinant ratio
ratio(iel) ==
  /\ \E v \in Rows :
       /\ psiV' = v
       /\ curRatio' = updateRatio(v, psiMinv, iel - FirstIndex)
  /\ lastOp' = "ratio"
  /\ lastIel' = iel
  /\ trials' = (IF lastOp = "ratio" THEN Min({trials + 1, MaxTrials}) ELSE 1)
  /\ UNCHANGED <<FirstIndex, psiMsave, psiMinv, LogValue, phase, factorStatus, handles>>
  /\ UNCHANGED dtVars

\* acceptMove copying psiV back into row 0 whatever iel is
acceptMove_RowZero(iel) ==
  /\ lastOp = "ratio" /\ lastIel = iel
  /\ psiMinv' = updateRow(psiMinv, psiV, iel - FirstIndex, curRatio)
  /\ psiMsave' = copyBack(psiMsave, psiV, 0)
  /\ lastOp' = "acceptMove"
  /\ lastIel' = iel
  /\ UNCHANGED <<FirstIndex, psiV, curRatio, LogValue, phase, factorStatus, trials, handles>>
  /\ UNCHANGED dtVars

\* acceptMove(P, iel): updateRow on psiMinv, then psiV copied back into
\* row iel - FirstIndex of psiMsave.  The function has no guard of its own;
\* the driver calls it only to commit the trial of the ratio(P, iel) it has
\* just made, and nothing stops it from committing a trial whose ratio is 0.
acceptMove(iel) ==
  /\ lastOp = "ratio" /\ lastIel = iel
  /\ psiMinv' = updateRow(psiMinv, psiV, iel - FirstIndex, curRatio)
  /\ psiMsave' = copyBack(psiMsave, psiV, iel - FirstIndex)
  /\ lastOp' = "acceptMove"
  /\ lastIel' = iel
  /\ UNCHANGED <<FirstIndex, psiV, curRatio, LogValue, phase, factorStatus, trials, handles>>
  /\ UNCHANGED dtVars

\* recompute() copying psiMsave into psiM as it is, not transposed
recompute_NotTransposed ==
  /\ psiMinv' = invertMatrix(psiMsave)
  /\ factorStatus' = "returned"
  /\ lastOp' = "recompute"
  /\ lastIel' = -1
  /\ trials' = 0
  /\ UNCHANGED <<FirstIndex, psiMsave, psiV, curRatio, LogValue, phase, handles>>
  /\ UNCHANGED dtVars

\* recompute(): psiM <- psiMsave transposed, inverted, psiMinv <- psiM
recompute ==
  /\ psiMinv' = invertMatrix(Transpose(psiMsave))
  /\ factorStatus' = "returned"
  /\ lastOp' = "recompute"
  /\ lastIel' = -1
  /\ trials' = 0
  /\ UNCHANGED <<FirstIndex, psiMsave, psiV, curRatio, LogValue, phase, handles>>
  /\ UNCHANGED dtVars

Electrons == FirstIndex .. (FirstIndex + nels - 1)

NextDet ==
  \/ \E iel \in Electrons : ratio(iel)
  \/ \E iel \in Electrons : acceptMove(iel)
  \/ recompute

SpecDet == InitDet /\ [][NextDet]_vars

\* The driver's contract (the Factorized / TrialPending state machine): the
\* matrix drawn at construction is non-singular and a trial whose ratio is 0
\* is never committed.
InitDetContract == InitDet /\ Det(psiMsave) # czero

acceptNonZero(iel) == curRatio # czero /\ acceptMove(iel)

NextDetContract ==
  \/ \E iel \in Electrons : ratio(iel)
  \/ \E iel \in Electrons : acceptNonZero(iel)
  \/ recompute

SpecDetContract == InitDetContract /\ [][NextDetContract]_vars

\* ------------------------------------------------------------------------
\* Copies of DiracDeterminantKokkos
\* ------------------------------------------------------------------------

\* every object is either built by the constructor or default-constructed;
\* the matrices and the distance table play no part
InitAssign ==
  /\ handles \in [Objs -> {Unallocated} \cup {Allocated(o) : o \in Objs}]
  /\ \A o \in Objs : handles[o] \in {Unallocated, Allocated(o)}
  /\ FirstIndex = 0
  /\ psiMsave = <<>>
  /\ psiMinv = <<>>
  /\ psiV = <<>>
  /\ curRatio = czero
  /\ LogValue = LogOf(cone)
  /\ phase = "0"
  /\ factorStatus = "none"
  /\ lastOp = "none"
  /\ lastIel = -1
  /\ trials = 0
  /\ IdleDT

\* a = b: the views of rhs are assigned member by member
operatorAssign(a, b) ==
  /\ handles' = [handles EXCEPT ![a] =
                   [m \in Members |->
                      IF m \in AssignedMembers THEN handles[b][m] ELSE handles[a][m]]]
  /\ UNCHANGED <<FirstIndex, psiMsave, psiMinv, psiV, curRatio, LogValue, phase,
                 factorStatus, lastOp, lastIel, trials>>
  /\ UNCHANGED dtVars

\* DiracDeterminantKokkos(const DiracDeterminantKokkos&) = default: the
\* object a is built as a copy of b, every member copied
copyConstruct(a, b) ==
  /\ handles' = [handles EXCEPT ![a] = handles[b]]
  /\ UNCHANGED <<FirstIndex, psiMsave, psiMinv, psiV, curRatio, LogValue, phase,
                 factorStatus, lastOp, lastIel, trials>>
  /\ UNCHANGED dtVars

NextAssign ==
  \/ \E a, b \in Objs : operatorAssign(a, b)
  \/ \E a, b \in Objs : copyConstruct(a, b)

SpecAssign == InitAssign /\ [][NextAssign]_vars

\* ------------------------------------------------------------------------
\* Properties of the determinant
\* ------------------------------------------------------------------------

\* C1: after the constructor's factorization and any sequence of
\* ratio/acceptMove pairs with non-zero ratios, psiMsave times the transpose
\* of psiMinv (the product checkMatrix tests) is the identity matrix.
C1_InverseConsistent == MulTrans(psiMsave, psiMinv) = Identity(nels)

C1_Witness ==
  /\ lastOp = "acceptMove"
  /\ curRatio \notin {cone, Neg(cone)}
  /\ \E i, j \in Idx : i # j /\ psiMinv[i][j] # czero

\* C6: a ratio() call leaves psiMsave and psiMinv (and LogValue, FirstIndex)
\* as they were; only psiV and curRatio are written.
C6_RatioFrame ==
  [][lastOp' = "ratio" =>
       /\ psiMsave' = psiMsave
       /\ psiMinv' = psiMinv
       /\ LogValue' = LogValue
       /\ FirstIndex' = FirstIndex]_vars

C6_Witness ==
  /\ lastOp = "ratio"
  /\ psiV # psiMsave[lastIel - FirstIndex]
  /\ curRatio \notin {czero, cone}
  /\ AllFinite(psiMinv)

\* C7: an accepted move changes LogValue by exactly log|curRatio|.
C7_LogValueFollowsRatio ==
  [][lastOp' = "acceptMove" =>
       LogValue' = LogSum(LogValue, LogOf(AbsQ(curRatio)))]_vars

\* C8: the factorization of a singular matrix (constructor or recompute)
\* ends in an error outcome, not in a returned value.
C8_SingularReported ==
  (lastOp \in {"construct", "recompute"} /\ Det(psiMsave) = czero)
    => factorStatus = "error"

\* C9: in a factorized state, the ratio of a trial row equal to row j of the
\* committed matrix is 1 when j is the row being replaced and 0 otherwise.
C9_RatioOfExistingRow ==
  lastOp = "ratio" =>
    \A j \in Idx :
      psiV = psiMsave[j] =>
        curRatio = (IF j = lastIel - FirstIndex THEN cone ELSE czero)

C9_Witness ==
  /\ lastOp = "ratio"
  /\ \E j \in Idx : j # lastIel - FirstIndex /\ psiV = psiMsave[j]
  /\ curRatio = czero

\* ------------------------------------------------------------------------
\* Properties of the distance table
\* ------------------------------------------------------------------------

ZeroRow(row) == \A s \in DOMAIN row : row[s] = 0

\* C2: a trial evaluation (move or moveOnSphere) leaves every entry of
\* Distances and Displacements, and the compact lists, as they were: only
\* Temp_r and Temp_dr are written.
C2_TrialFrame ==
  [][(\E rnew \in Positions : move(rnew) \/ moveOnSphere(rnew)) =>
       /\ Distances' = Distances
       /\ Displacements' = Displacements
       /\ <<M, J2, r_m2, dr_m2>>' = <<M, J2, r_m2, dr_m2>>]_vars

C2_Witness ==
  /\ Nsources > 1 /\ Ntargets > 0
  /\ ~ZeroRow(Temp_r)
  /\ \A t \in Targets : Distances[t] # Temp_r
  /\ \E t \in Targets : ~ZeroRow(Distances[t])

\* C3: update(iat) makes row iat of Distances, and of every dimension of
\* Displacements, equal to the trial row Temp_r / Temp_dr for all Nsources
\* sources, leaves the trial row as the last move() wrote it and leaves every
\* other target row unchanged.
C3_UpdateCommitsTrial ==
  [][\A iat \in Targets :
       update(iat) =>
         /\ \A s \in 0 .. (Nsources - 1) :
              /\ Distances'[iat][s] = Temp_r[s]
              /\ \A d \in Dims : Displacements'[iat][s][d] = Temp_dr[s][d]
         /\ Temp_r' = Temp_r /\ Temp_dr' = Temp_dr
         /\ \A t \in (DOMAIN Distances) \ {iat} :
              Distances'[t] = Distances[t] /\ Displacements'[t] = Displacements[t]]_vars

C3_Witness ==
  /\ Nsources > 1
  /\ ~ZeroRow(Temp_r)
  /\ \E iat, t \in Targets :
       /\ iat # t
       /\ Distances[iat] = Temp_r /\ Displacements[iat] = Temp_dr
       /\ Distances[t] # Temp_r /\ ~ZeroRow(Distances[t])

\* the compact lists agree with the dense table for the cutoff Rmax
CompactCorrect ==
  \A i \in 0 .. (Nsources - 1) :
    LET hits == {j \in Targets : Distances[j][i] < Rmax}
    IN  /\ M[i] = Cardinality(hits)
        /\ {J2[i][k] : k \in 0 .. (M[i] - 1)} = hits
        /\ \A k \in 0 .. (M[i] - 2) : J2[i][k] < J2[i][k + 1]
        /\ \A k \in 0 .. (M[i] - 1) :
             /\ r_m2[i][k] = Distances[J2[i][k]][i]
             /\ \A d \in Dims : dr_m2[i][k][d] = -Displacements[J2[i][k]][i][d]

\* C4: after donePbyP() with Rmax at or above epsilon on a table that has
\* storage, for every source i, M[i] counts the targets within the cutoff,
\* J2[i] lists exactly those in strictly ascending order, and r_m2 / dr_m2
\* hold their distances and negated displacements.
C4_CompactionCorrect ==
  [][((\E r \in RmaxVals : donePbyP(r)) /\ Rmax' >= Epsilon /\ Nsources * Ntargets # 0)
       => CompactCorrect']_vars

C4_Witness ==
  /\ Rmax >= Epsilon
  /\ Nsources > 1 /\ Ntargets > 1
  /\ CompactCorrect
  /\ \E i \in 0 .. (Nsources - 1) : M[i] = 1 /\ J2[i][0] = 1
  /\ \E i \in 0 .. (Nsources - 1) : M[i] = Ntargets

\* C5: donePbyP() with Rmax below epsilon changes nothing: neither the
\* compact lists built before nor the dense tables.
C5_ZeroCutoffNoOp ==
  [][(\E r \in RmaxVals : r < Epsilon /\ donePbyP(r)) =>
       /\ <<M, J2, r_m2, dr_m2>>' = <<M, J2, r_m2, dr_m2>>
       /\ <<Distances, Displacements, Temp_r, Temp_dr, fault>>'
            = <<Distances, Displacements, Temp_r, Temp_dr, fault>>]_vars

C5_Witness ==
  /\ Rmax < Epsilon
  /\ Nsources * Ntargets # 0
  /\ \E i \in 0 .. (Nsources - 1) : M[i] > 0

\* C10: on a table with Nsources or Ntargets zero no operation touches an
\* element outside the (empty) buffers, and the buffers stay as resize left
\* them.
C10_ZeroSizedNoOp ==
  Nsources * Ntargets = 0 =>
    /\ ~fault
    /\ LET b == resize(Nsources, Ntargets)
       IN  dtBuffers = <<b.Distances, b.Displacements, b.Temp_r, b.Temp_dr,
                         b.M, b.J2, b.r_m2, b.dr_m2>>

\* ------------------------------------------------------------------------
\* The factorization from scratch
\* ------------------------------------------------------------------------

\* C11: the log-determinant magnitude the constructor gets back from
\* InvertWithLog is the sum over all i of log|pivot_i|, pivot_i the i-th
\* diagonal entry of the LU factor of the matrix handed in.
C11_LogDetIsPivotSum ==
  lastOp = "construct" =>
    LogValue = LogAccumulate(getrf(Transpose(psiMsave)).lu, nels - 1)

\* the product over all rows i of (+1 if row i was not interchanged, else
\* -1) times (+1 if the i-th diagonal entry of the LU factor is positive,
\* else -1)
SignOfFactors(f) ==
  ProdOver([i \in DOMAIN f.lu |->
              (IF f.piv[i] = i + 1 THEN 1 ELSE -1)
                * (IF Positive(f.lu[i][i]) THEN 1 ELSE -1)],
           DOMAIN f.lu)

\* C13: the phase InvertWithLog sets is 0 when the product over all rows
\* of the interchange sign and the sign of the LU diagonal entry is
\* positive, and pi when it is negative.
C13_PhaseIsSignProduct ==
  lastOp = "construct" =>
    phase = (IF SignOfFactors(getrf(Transpose(psiMsave))) > 0 THEN "0" ELSE "pi")

\* ------------------------------------------------------------------------
\* Committing a trial
\* ------------------------------------------------------------------------

\* the rank-1 update of minv for the row `row`, the trial row v and the
\* factor c: with t[j] = c * (minv[j] . v) for j # row and t[row] = 1 - c,
\* entry (j, i) loses minv[row][i] * t[j]
RankOne(minv, v, row, c) ==
  LET t == [j \in DOMAIN minv |->
              IF j = row THEN Sub(cone, c) ELSE Mul(c, SumQ([k \in DOMAIN v |-> Mul(minv[j][k], v[k])]))]
  IN  [j \in DOMAIN minv |->
         [i \in DOMAIN minv |-> Sub(minv[j][i], Mul(minv[row][i], t[j]))]]

\* C14: acceptMove(iel) commits the trial of the most recent ratio() call:
\* curRatio is the ratio of the stored psiV against the psiMinv it meets
\* (no earlier ratio() call has left a trace), psiMinv gets the rank-1
\* update with c = 1/curRatio and psiV, and row iel-FirstIndex of psiMsave
\* becomes psiV while every other row of psiMsave is unchanged.
C14_AcceptCommitsLastTrial ==
  [][\A iel \in Electrons :
       acceptMove(iel) =>
         LET row == iel - FirstIndex
         IN  /\ curRatio = SumQ([k \in Idx |-> Mul(psiV[k], psiMinv[row][k])])
             /\ psiMinv' = RankOne(psiMinv, psiV, row, Div(cone, curRatio))
             /\ psiMsave'[row] = psiV
             /\ \A j \in Idx \ {row} : psiMsave'[j] = psiMsave[j]
             /\ psiV' = psiV /\ curRatio' = curRatio]_vars

\* a trial committed after an earlier trial was superseded
C14_Witness ==
  /\ lastOp = "acceptMove"
  /\ trials = MaxTrials
  /\ psiMsave[lastIel - FirstIndex] = psiV
  /\ curRatio \notin {czero, cone}
  /\ AllFinite(psiMinv)
  /\ \E j \in Idx : j # lastIel - FirstIndex /\ psiMsave[j] # psiV

\* ------------------------------------------------------------------------
\* Recomputing the inverse
\* ------------------------------------------------------------------------

\* C15: recompute() in any reachable state leaves psiMsave (with every row
\* accepted so far) as it is and sets psiMinv to what the factorization from
\* scratch gives for it, whatever psiMinv held before: for a non-singular
\* psiMsave, psiMsave times the transpose of the new psiMinv is the identity;
\* and a second recompute() right after finds nothing to change.
C15_RecomputeFromScratch ==
  [][recompute =>
       /\ psiMsave' = psiMsave
       /\ psiMinv' = InvertWithLog(Transpose(psiMsave)).psiM
       /\ (Det(psiMsave) # czero => MulTrans(psiMsave, psiMinv') = Identity(nels))
       /\ invertMatrix(Transpose(psiMsave')) = psiMinv'
       /\ <<FirstIndex, psiV, curRatio, LogValue>>' = <<FirstIndex, psiV, curRatio, LogValue>>]_vars

\* recompute() after a trial with a ratio other than 0 and 1 was accepted:
\* the trial row is a row of the matrix that was inverted
C15_Witness ==
  /\ lastOp = "recompute"
  /\ IsFinite(curRatio) /\ curRatio \notin {czero, cone}
  /\ \E row \in Idx : psiMsave[row] = psiV
  /\ Det(psiMsave) # czero
  /\ MulTrans(psiMsave, psiMinv) = Identity(nels)

\* ------------------------------------------------------------------------
\* Assignment
\* ------------------------------------------------------------------------

\* C16: after the assignment a = b every data member of a (psiM among them)
\* refers to the same data as the corresponding member of b.
C16_AssignAliasesAll ==
  [][\A a, b \in Objs :
       operatorAssign(a, b) => \A m \in Members : handles'[a][m] = handles'[b][m]]_vars

\* ------------------------------------------------------------------------
\* The single-row evaluation of the distance table
\* ------------------------------------------------------------------------

\* the tables with row iat recomputed for pos and every other row kept
SingleRow(tbl, pos, iat) ==
  [Distances |->
     [t \in DOMAIN tbl.Distances |->
        IF t = iat THEN [s \in DOMAIN tbl.Distances[t] |-> DistanceTo(pos, s)]
        ELSE tbl.Distances[t]],
   Displacements |->
     [t \in DOMAIN tbl.Displacements |->
        IF t = iat THEN [s \in DOMAIN tbl.Displacements[t] |-> DisplacementTo(pos, s)]
        ELSE tbl.Displacements[t]]]

\* the single-row evaluation run for iat = 0 .. k-1
RECURSIVE RowByRow(_, _, _)
RowByRow(tbl, R, k) ==
  IF k = 0 THEN tbl ELSE SingleRow(RowByRow(tbl, R, k - 1), R[k - 1], k - 1)

====
